---- MODULE Spec2Model ----
(***************************************************************************)
(* A model of gEconpy's SymbolDictionary (classes/containers.py) and of    *)
(* the CSR helpers of estimation/estimation_utilities.py.                  *)
(*                                                                         *)
(* SymbolDictionary instances live in a small heap `dicts`; each instance  *)
(* refers to its assumption table by identity (`asm`, an index into        *)
(* `tabs`), because copy() hands the table of the original to the copy     *)
(* without copying it.  `last` records the most recent call.               *)
(*                                                                         *)
(* `csr`, `bk`, `sys`, `gcn` and `mle` hold the locals of the other        *)
(* functions, each under a specification of its own: the CSR matrices      *)
(* (SpecCsr), the Blanchard-Kahn check (SpecBk), the closures of the       *)
(* system matrices (SpecSys), the distribution declarations of a model     *)
(* file (SpecGcn) and the likelihood of the statsmodels wrapper (SpecMle). *)
(***************************************************************************)
EXTENDS Integers, Sequences, FiniteSets

VARIABLES dicts, tabs, last, calls, csr, bk, sys, gcn, mle

vars == <<dicts, tabs, last, calls, csr, bk, sys, gcn, mle>>

(***************************************************************************)
(* Bounds of the model.                                                    *)
(***************************************************************************)
MaxLen == 2
MaxShift == 1
MaxCalls == 2
MaxRows == 2
MaxCols == 2
MaxNnz == 3
MaxVars == 2
MaxExprs == 2
MaxStmts == 2
MaxObs == 2
MaxParams == 2
MaxEvals == 2

\* Two variables hold instances; each instance has a table object
Objs == {1, 2}
TabIds == Objs
Bases == {"x", "y"}

(***************************************************************************)
(* Keys.  A string key is a name base_suffix; a symbol key is a            *)
(* TimeAwareSymbol (base_name, time_index) carrying its assumptions0; an   *)
(* "int" key stands for a key of any other type.  Assumption sets are      *)
(* tokens: "dflt" is assumptions0 of a symbol created without keyword      *)
(* assumptions, "pos" that of a symbol created positive.                   *)
(***************************************************************************)
NoAsm == "none"

StrKey(b, ss, t) == [kind |-> "str", base |-> b, ss |-> ss, t |-> t, asm |-> NoAsm]
SymKey(b, ss, t, a) == [kind |-> "sym", base |-> b, ss |-> ss, t |-> t, asm |-> a]
IntKey == [kind |-> "int", base |-> "", ss |-> FALSE, t |-> 0, asm |-> NoAsm]
NoKey == [kind |-> "nokey", base |-> "", ss |-> FALSE, t |-> 0, asm |-> NoAsm]

IsStr(k) == k.kind = "str"
IsSymbol(k) == k.kind = "sym"

\* Keys are equal as dictionary keys when type, base name and time index agree.
SameKey(k1, k2) == k1.kind = k2.kind /\ k1.base = k2.base /\ k1.ss = k2.ss /\ k1.t = k2.t

\* Values: a number held either as a Python float or as a sympy Number.
Val(n, f) == [n |-> n, float |-> f]
\* Assigned values are floats, constructed dicts hold both kinds
InputVals == {Val(1, TRUE)}

InputKeys ==
    {StrKey("x", FALSE, 0), StrKey("y", FALSE, 0),
     SymKey("x", FALSE, 0, "dflt"), SymKey("y", FALSE, 0, "pos"), IntKey}

(***************************************************************************)
(* The built-in dict, as an insertion-ordered sequence of entries.         *)
(***************************************************************************)
Entry(k, v) == [k |-> k, v |-> v]
Keys(items) == [i \in 1..Len(items) |-> items[i].k]
HasKey(items, k) == \E i \in 1..Len(items) : SameKey(items[i].k, k)

\* dict.__setitem__: an existing key keeps its place and its key object.
DictSet(items, k, v) ==
    IF HasKey(items, k)
    THEN [i \in 1..Len(items) |->
            IF SameKey(items[i].k, k) THEN Entry(items[i].k, v) ELSE items[i]]
    ELSE Append(items, Entry(k, v))

\* dict.__delitem__
DictDel(items, k) == SelectSeq(items, LAMBDA e : ~SameKey(e.k, k))

\* dict.update / dict(...) from a sequence of entries
RECURSIVE DictUpdate(_, _)
DictUpdate(items, other) ==
    IF other = <<>> THEN items
    ELSE DictUpdate(DictSet(items, Head(other).k, Head(other).v), Tail(other))

DictGet(items, k) ==
    LET i == CHOOSE i \in 1..Len(items) : SameKey(items[i].k, k) IN items[i].v

(***************************************************************************)
(* Assumption tables: base name -> assumptions0, NoAsm where absent.       *)
(***************************************************************************)
EmptyTab == [b \in Bases |-> NoAsm]
TabNames(tb) == {b \in Bases : tb[b] # NoAsm}
\* dict.update on tables: the argument's entries win
TabUpdate(tb, other) == [b \in Bases |-> IF other[b] # NoAsm THEN other[b] ELSE tb[b]]

(***************************************************************************)
(* Helpers of gEconpy.shared.utilities and TimeAwareSymbol.                *)
(***************************************************************************)
\* assumptions0 of a symbol created with the keyword assumptions `tok`
A0(tok) == IF tok = NoAsm THEN "dflt" ELSE tok

Ok(x) == [err |-> "none", val |-> x]
Raise(e) == [err |-> e, val |-> <<>>]

\* string_keys_to_sympy: symbols pass, a name becomes the TimeAwareSymbol it
\* spells, created with the assumptions recorded for its base name
KeyToSympy(k, assumptions) ==
    IF IsStr(k) THEN SymKey(k.base, k.ss, k.t, A0(assumptions[k.base])) ELSE k

string_keys_to_sympy(items, assumptions) ==
    IF \E i \in 1..Len(items) : items[i].k.kind = "int"
    THEN Raise("TypeError")
    ELSE Ok(DictUpdate(<<>>, [i \in 1..Len(items) |->
                Entry(KeyToSympy(items[i].k, assumptions), items[i].v)]))

\* sympy_keys_to_strings: a symbol becomes its name, base_suffix
KeyToString(k) == IF IsSymbol(k) THEN StrKey(k.base, k.ss, k.t) ELSE k

sympy_keys_to_strings(items) ==
    IF \E i \in 1..Len(items) : items[i].k.kind = "int"
    THEN Raise("AttributeError")
    ELSE Ok(DictUpdate(<<>>, [i \in 1..Len(items) |->
                Entry(KeyToString(items[i].k), items[i].v)]))

\* TimeAwareSymbol.step_forward / step_backward / to_ss
StepSymbol(k, func_name) ==
    CASE func_name = "step_forward" -> [k EXCEPT !.t = k.t + 1]
      [] func_name = "step_backward" -> [k EXCEPT !.t = k.t - 1]
      [] OTHER -> [k EXCEPT !.ss = TRUE, !.t = 0]

\* The order of names as strings: base first, then the suffixes
\* "ss" < "t" < "tm<n>" < "tp<n>"
SuffixRank(k) ==
    IF k.ss THEN 0
    ELSE IF k.t = 0 THEN 1
    ELSE IF k.t < 0 THEN 1 - k.t
    ELSE 2 + MaxShift + k.t

NameLess(k1, k2) ==
    \/ k1.base = "x" /\ k2.base = "y"
    \/ k1.base = k2.base /\ SuffixRank(k1) < SuffixRank(k2)

\* sort_dictionary: the same entries, in the order of their names
RECURSIVE SortItems(_)
SortItems(items) ==
    IF items = <<>> THEN <<>>
    ELSE LET m == CHOOSE i \in 1..Len(items) :
                    \A j \in 1..Len(items) : ~NameLess(items[j].k, items[i].k)
             rest == [j \in 1..(Len(items) - 1) |->
                        IF j < m THEN items[j] ELSE items[j + 1]]
         IN <<items[m]>> \o SortItems(rest)

sort_dictionary(items) == SortItems(items)

\* sympy_number_values_to_floats / float_values_to_sympy_float
sympy_number_values_to_floats(items) ==
    [i \in 1..Len(items) |-> Entry(items[i].k, Val(items[i].v.n, TRUE))]

float_values_to_sympy_float(items) ==
    [i \in 1..Len(items) |-> Entry(items[i].k, Val(items[i].v.n, FALSE))]

(***************************************************************************)
(* SymbolDictionary.  An instance value is its entries, its is_sympy flag  *)
(* and the content of its assumption table; which table object it is, is   *)
(* kept in the heap.                                                       *)
(***************************************************************************)
Inst(items, flag, tab) == [items |-> items, is_sympy |-> flag, tab |-> tab]

RECURSIVE SaveKeys(_, _)
SaveKeys(tb, keys) ==
    IF keys = <<>> THEN tb
    ELSE SaveKeys([tb EXCEPT ![Head(keys).base] = Head(keys).asm], Tail(keys))

\* _save_assumptions
SaveAssumptions(tb, is_sympy, keys) == IF ~is_sympy THEN tb ELSE SaveKeys(tb, keys)

\* __init__ from the entries of a dict
SDInit(items) ==
    LET keys == Keys(items)
        is_sympy == Len(keys) > 0 /\ ~IsStr(keys[1])
    IN  IF \E i \in 1..Len(keys) : ~(IsSymbol(keys[i]) \/ IsStr(keys[i]))
        THEN Raise("KeyError")
        ELSE IF Len(keys) > 0
                /\ \/ is_sympy /\ \E i \in 1..Len(keys) : IsStr(keys[i])
                   \/ ~is_sympy /\ \E i \in 1..Len(keys) : IsSymbol(keys[i])
        THEN Raise("KeyError")
        ELSE Ok(Inst(items, is_sympy, SaveAssumptions(EmptyTab, is_sympy, keys)))

\* copy: a new instance over the same entries, the flag of the original; the
\* table is the original's (the caller aliases it), here its content
SDCopy(self) ==
    LET n == SDInit(self.items)
    IN  IF n.err # "none" THEN n ELSE Ok(Inst(self.items, self.is_sympy, self.tab))

\* A call's outcome with the content it leaves in the receiver's table object
Out(res, shared) == [err |-> res.err, val |-> res.val, shared |-> shared]

\* to_sympy(inplace=False, new_assumptions)
SDToSympy(self, new_assumptions) ==
    LET assumptions == TabUpdate(self.tab, new_assumptions)
        conv == string_keys_to_sympy(self.items, assumptions)
    IN  IF conv.err # "none" THEN conv ELSE SDInit(conv.val)

\* to_string(inplace=False)
SDToString(self) ==
    LET copy_dict == SDCopy(self)
    IN  IF copy_dict.err # "none" THEN copy_dict
        ELSE LET conv == sympy_keys_to_strings(copy_dict.val.items)
                 d == SDInit(conv.val)
             IN  IF conv.err # "none" THEN conv
                 ELSE IF d.err # "none" THEN d
                 ELSE Ok(Inst(d.val.items, d.val.is_sympy, copy_dict.val.tab))

\* _clean_update(d): the receiver afterwards
SDCleanUpdate(d) == Inst(DictUpdate(<<>>, d.items), d.is_sympy, TabUpdate(EmptyTab, d.tab))

StepKey(k, func_name) == IF IsSymbol(k) THEN StepSymbol(k, func_name) ELSE k

\* _step_dict_keys(func_name).  dict_copy shares the receiver's table object, so
\* dict_copy.to_sympy(inplace=True) rewrites that object: `shared` is what the
\* receiver's table holds when the call ends.
SDStepDictKeys(self, func_name) ==
    LET is_sympy == self.is_sympy
        dict_copy == SDCopy(self)
    IN  IF dict_copy.err # "none" THEN Out(dict_copy, self.tab)
        ELSE
        LET promoted == IF is_sympy THEN dict_copy
                        ELSE SDToSympy(dict_copy.val, EmptyTab)
        IN  IF promoted.err # "none" THEN Out(promoted, self.tab)
            ELSE
            LET cur == IF is_sympy THEN dict_copy.val ELSE SDCleanUpdate(promoted.val)
                shared == cur.tab
                stepped == DictUpdate(<<>>, [i \in 1..Len(cur.items) |->
                              Entry(StepKey(cur.items[i].k, func_name), cur.items[i].v)])
                d == SDInit(stepped)
            IN  IF d.err # "none" THEN Out(d, shared)
                ELSE IF is_sympy THEN Out(d, shared)
                ELSE LET s == SDToString(d.val)
                     IN  IF s.err # "none" THEN Out(s, shared)
                         ELSE Out(Ok(SDCleanUpdate(s.val)), shared)

\* sort_keys(inplace=False)
SDSortKeys(self) ==
    LET c == SDCopy(self)
    IN  IF c.err # "none" THEN c
        ELSE LET s == SDToString(c.val)
             IN  IF s.err # "none" THEN s
                 ELSE LET n == SDInit(sort_dictionary(s.val.items))
                          d == Inst(n.val.items, n.val.is_sympy, self.tab)
                      IN  IF n.err # "none" THEN n
                          ELSE IF self.is_sympy THEN SDToSympy(d, EmptyTab)
                          ELSE Ok(d)

\* values_to_float(inplace=False)
SDValuesToFloat(self) ==
    LET d == SDCopy(self)
    IN  IF d.err # "none" THEN d
        ELSE Ok(Inst(sympy_number_values_to_floats(d.val.items), d.val.is_sympy, self.tab))

\* float_to_values(inplace=False)
SDFloatToValues(self) ==
    LET d == SDCopy(self)
    IN  IF d.err # "none" THEN d
        ELSE Ok(Inst(float_values_to_sympy_float(d.val.items), d.val.is_sympy, self.tab))

\* __setitem__ as it would be if the flag were taken from every assigned key
SDSetItemAnyKey(self, key, value) ==
    Ok(Inst(DictSet(self.items, key, value), IsSymbol(key),
            SaveAssumptions(self.tab, IsSymbol(key), <<key>>)))

\* __setitem__ as it would be without the check of a string key in sympy mode
SDSetItemNoStrCheck(self, key, value) ==
    LET empty == Len(self.items) = 0
        is_sympy == IF empty THEN IsSymbol(key) ELSE self.is_sympy
    IN  IF ~empty /\ ~self.is_sympy /\ IsSymbol(key) THEN Raise("KeyError")
        ELSE Ok(Inst(DictSet(self.items, key, value), is_sympy,
                     IF IsSymbol(key) THEN SaveAssumptions(self.tab, is_sympy, <<key>>)
                     ELSE self.tab))

\* __setitem__(key, value): the outcome; val is the receiver afterwards
SDSetItem(self, key, value) ==
    LET empty == Len(self.items) = 0
        is_sympy == IF empty THEN IsSymbol(key) ELSE self.is_sympy
    IN  IF ~empty /\ self.is_sympy /\ ~IsSymbol(key) THEN Raise("KeyError")
        ELSE IF ~empty /\ ~self.is_sympy /\ IsSymbol(key) THEN Raise("KeyError")
        ELSE Ok(Inst(DictSet(self.items, key, value), is_sympy,
                     SaveAssumptions(self.tab, is_sympy, <<key>>)))

\* __or__(other) on two instances.  val is the instance returned; `alias` tells
\* whose table object it carries ("self" or "other"); tself and tother are the
\* contents of the operands' table objects when the call ends.
OrOut(res, alias, tself, tother) ==
    [err |-> res.err, val |-> res.val, alias |-> alias, tself |-> tself, tother |-> tother]

\* __or__ as it would be without the comparison of the operands' modes
SDOrNoModeCheck(self, other) ==
    LET d_copy == SDCopy(self)
        merged == TabUpdate(self.tab, other.tab)
    IN  IF d_copy.err # "none" THEN OrOut(d_copy, "self", self.tab, other.tab)
        ELSE OrOut(Ok(Inst(DictUpdate(self.items, other.items),
                           IF Len(self.items) = 0 THEN other.is_sympy ELSE self.is_sympy,
                           merged)),
                   "self", merged, other.tab)

\* __or__ as it would be if the left operand's values won on collision
SDOrLeftWins(self, other) ==
    LET d_copy == SDCopy(self)
        merged == TabUpdate(self.tab, other.tab)
    IN  IF d_copy.err # "none" THEN OrOut(d_copy, "self", self.tab, other.tab)
        ELSE IF other.is_sympy # self.is_sympy /\ Len(self.items) > 0 /\ Len(other.items) > 0
        THEN OrOut(Raise("ValueError"), "self", self.tab, other.tab)
        ELSE OrOut(Ok(Inst(DictUpdate(self.items,
                              SelectSeq(other.items, LAMBDA e : ~HasKey(self.items, e.k))),
                           IF Len(self.items) = 0 THEN other.is_sympy ELSE self.is_sympy,
                           merged)),
                   "self", merged, other.tab)

\* __or__ as it would be if an empty left operand returned the copy of the
\* other operand without merging the assumption tables
SDOrNoTableMerge(self, other) ==
    LET d_copy == SDCopy(self)
        other_copy == SDCopy(other)
        merged == TabUpdate(self.tab, other.tab)
    IN  IF d_copy.err # "none" THEN OrOut(d_copy, "self", self.tab, other.tab)
        ELSE IF Len(self.items) = 0
        THEN IF other_copy.err # "none"
             THEN OrOut(other_copy, "other", self.tab, other.tab)
             ELSE OrOut(Ok(Inst(other.items, other.is_sympy, other.tab)), "other",
                        self.tab, other.tab)
        ELSE IF Len(other.items) > 0 /\ other.is_sympy # self.is_sympy
        THEN OrOut(Raise("ValueError"), "self", self.tab, other.tab)
        ELSE OrOut(Ok(Inst(DictUpdate(self.items, other.items), self.is_sympy, merged)),
                   "self", merged, other.tab)

SDOr(self, other) ==
    LET d_copy == SDCopy(self)
    IN  IF d_copy.err # "none" THEN OrOut(d_copy, "self", self.tab, other.tab)
        ELSE IF Len(d_copy.val.items) = 0
        THEN LET other_copy == SDCopy(other)
                 merged == TabUpdate(other.tab, self.tab)
             IN  IF other_copy.err # "none"
                 THEN OrOut(other_copy, "other", self.tab, other.tab)
                 ELSE OrOut(Ok(Inst(other.items, other.is_sympy, merged)), "other",
                            self.tab, merged)
        ELSE IF Len(other.items) = 0
        THEN LET merged == TabUpdate(self.tab, other.tab)
             IN  OrOut(Ok(Inst(self.items, self.is_sympy, merged)), "self",
                       merged, other.tab)
        ELSE IF other.is_sympy # self.is_sympy
        THEN OrOut(Raise("ValueError"), "self", self.tab, other.tab)
        ELSE LET merged == TabUpdate(self.tab, other.tab)
             IN  OrOut(Ok(Inst(DictUpdate(self.items, other.items), self.is_sympy, merged)),
                       "self", merged, other.tab)

(***************************************************************************)
(* The heap and the calls made on it.                                      *)
(***************************************************************************)
Obj(items, flag, ref) == [items |-> items, is_sympy |-> flag, asm |-> ref]

\* The instance held in slot o, with the content of its table
View(o) == Inst(dicts[o].items, dicts[o].is_sympy, tabs[dicts[o].asm])

\* Plain dicts given to the constructor and to update
InputPairs ==
    {<<StrKey("x", FALSE, 0), StrKey("y", FALSE, 0)>>,
     <<SymKey("x", FALSE, 0, "dflt"), SymKey("y", FALSE, 0, "pos")>>,
     <<StrKey("x", FALSE, 0), SymKey("y", FALSE, 0, "pos")>>,
     <<SymKey("x", FALSE, 0, "dflt"), StrKey("y", FALSE, 0)>>,
     <<StrKey("y", FALSE, 0), IntKey>>}

SmallDicts == {<<Entry(k, Val(2, FALSE))>> : k \in InputKeys}

PlainDicts ==
    {<<>>} \cup (SmallDicts \ {<<Entry(StrKey("y", FALSE, 0), Val(2, FALSE))>>})
    \cup {<<Entry(p[1], Val(1, TRUE)), Entry(p[2], Val(2, FALSE))>> : p \in InputPairs}

NewAssumptions == {EmptyTab, [EmptyTab EXCEPT !["x"] = "pos"]}

Call(op, recv, other, key, inplace, err, ret) ==
    [op |-> op, recv |-> recv, other |-> other, key |-> key,
     inplace |-> inplace, err |-> err, ret |-> ret, dflt |-> TRUE]

\* Table objects no instance refers to are dropped
Collect(ds, ts) ==
    [t \in TabIds |-> IF \E o \in Objs : ds[o].asm = t THEN ts[t] ELSE EmptyTab]

\* A table object not in use once slot r is overwritten
Alloc(r) ==
    CHOOSE t \in TabIds :
        /\ \A o \in Objs \ {r} : dicts[o].asm # t
        /\ \A u \in TabIds : (\A o \in Objs \ {r} : dicts[o].asm # u) => t <= u

\* Slot r receives a new instance with a table object of its own
StoreNew(ts, r, val) ==
    LET t == Alloc(r)
        ds2 == [dicts EXCEPT ![r] = Obj(val.items, val.is_sympy, t)]
    IN  /\ dicts' = ds2
        /\ tabs' = Collect(ds2, [ts EXCEPT ![t] = val.tab])

\* Slot r receives a new instance that carries the table object ref
StoreAlias(ts, r, val, ref) ==
    LET ds2 == [dicts EXCEPT ![r] = Obj(val.items, val.is_sympy, ref)]
    IN  /\ dicts' = ds2
        /\ tabs' = Collect(ds2, ts)

Fits(items) == Len(items) <= MaxLen

\* How a transform ends: it raised, rewrote the receiver through
\* _clean_update, or returned a new instance.  dflt: the call was made with
\* default arguments (to_sympy without new_assumptions)
Finish(op, o, inplace, r, out, dflt) ==
    LET ref == dicts[o].asm
        ts1 == [tabs EXCEPT ![ref] = out.shared]
    IN  IF out.err # "none"
        THEN /\ dicts' = dicts
             /\ tabs' = ts1
             /\ last' = [Call(op, o, 0, NoKey, inplace, out.err, 0) EXCEPT !.dflt = dflt]
        ELSE IF inplace
        THEN LET n == SDCleanUpdate(out.val)
             IN  /\ dicts' = [dicts EXCEPT ![o] = Obj(n.items, n.is_sympy, ref)]
                 /\ tabs' = [ts1 EXCEPT ![ref] = n.tab]
                 /\ last' = [Call(op, o, 0, NoKey, TRUE, "none", 0) EXCEPT !.dflt = dflt]
        ELSE /\ StoreNew(ts1, r, out.val)
             /\ last' = [Call(op, o, 0, NoKey, FALSE, "none", r) EXCEPT !.dflt = dflt]

\* One more call, while the bound on the number of calls allows it
Tick == calls < MaxCalls /\ calls' = calls + 1

\* d = SymbolDictionary(pd): the variables are bound before the calls are made
Construct(r, pd) ==
    /\ calls = 0
    /\ UNCHANGED calls
    /\ LET res == SDInit(pd)
       IN  /\ IF res.err # "none"
              THEN /\ UNCHANGED <<dicts, tabs>>
                   /\ last' = Call("init", 0, 0, NoKey, FALSE, res.err, 0)
              ELSE /\ StoreNew(tabs, r, res.val)
                   /\ last' = Call("init", 0, 0, NoKey, FALSE, "none", 0)
           /\ UNCHANGED <<csr, bk, sys, gcn, mle>>

\* d[key] = value
SetItem(o, key, value) ==
    /\ Tick
    /\ LET res == SDSetItem(View(o), key, value)
       IN  /\ IF res.err # "none"
              THEN /\ UNCHANGED <<dicts, tabs>>
                   /\ last' = Call("setitem", o, 0, key, FALSE, res.err, 0)
              ELSE /\ Fits(res.val.items)
                   /\ dicts' = [dicts EXCEPT ![o] =
                                   Obj(res.val.items, res.val.is_sympy, dicts[o].asm)]
                   /\ tabs' = [tabs EXCEPT ![dicts[o].asm] = res.val.tab]
                   /\ last' = Call("setitem", o, 0, key, FALSE, "none", 0)
           /\ UNCHANGED <<csr, bk, sys, gcn, mle>>

\* del d[key], for a key the instance holds  (dict.__delitem__, inherited)
DelItem(o, key) ==
    /\ Tick
    /\ HasKey(dicts[o].items, key)
    /\ dicts' = [dicts EXCEPT ![o].items = DictDel(dicts[o].items, key)]
    /\ last' = Call("delitem", o, 0, key, FALSE, "none", 0)
    /\ UNCHANGED <<tabs, csr, bk, sys, gcn, mle>>

\* d.update(pd)  (dict.update, inherited: it does not go through __setitem__)
Update(o, pd) ==
    /\ Tick
    /\ LET items == DictUpdate(dicts[o].items, pd)
       IN  /\ Fits(items)
           /\ dicts' = [dicts EXCEPT ![o].items = items]
           /\ last' = Call("update", o, 0, NoKey, FALSE, "none", 0)
           /\ UNCHANGED <<tabs, csr, bk, sys, gcn, mle>>

\* d.setdefault(key, value)  (dict.setdefault, inherited)
SetDefault(o, key, value) ==
    /\ Tick
    /\ LET items == IF HasKey(dicts[o].items, key) THEN dicts[o].items
                    ELSE Append(dicts[o].items, Entry(key, value))
       IN  /\ Fits(items)
           /\ dicts' = [dicts EXCEPT ![o].items = items]
           /\ last' = Call("setdefault", o, 0, key, FALSE, "none", 0)
           /\ UNCHANGED <<tabs, csr, bk, sys, gcn, mle>>

\* c = d.copy()
Copy(o, r) ==
    /\ Tick
    /\ LET res == SDCopy(View(o))
       IN  /\ IF res.err # "none"
              THEN /\ UNCHANGED <<dicts, tabs>>
                   /\ last' = Call("copy", o, 0, NoKey, FALSE, res.err, 0)
              ELSE /\ StoreAlias(tabs, r, res.val, dicts[o].asm)
                   /\ last' = Call("copy", o, 0, NoKey, FALSE, "none", r)
           /\ UNCHANGED <<csr, bk, sys, gcn, mle>>

\* c = a | b
Or(a, b, r) ==
    /\ Tick
    /\ LET out == SDOr(View(a), View(b))
           ts1 == [[tabs EXCEPT ![dicts[b].asm] = out.tother] EXCEPT ![dicts[a].asm] = out.tself]
       IN  /\ IF out.err # "none"
              THEN /\ UNCHANGED <<dicts, tabs>>
                   /\ last' = Call("or", a, b, NoKey, FALSE, out.err, 0)
              ELSE /\ Fits(out.val.items)
                   /\ StoreAlias(ts1, r, out.val,
                                 IF out.alias = "self" THEN dicts[a].asm ELSE dicts[b].asm)
                   /\ last' = Call("or", a, b, NoKey, FALSE, "none", r)
           /\ UNCHANGED <<csr, bk, sys, gcn, mle>>

ToSympy(o, inplace, new_assumptions, r) ==
    /\ Tick
    /\ Finish("to_sympy", o, inplace, r,
              Out(SDToSympy(View(o), new_assumptions), View(o).tab),
              new_assumptions = EmptyTab)
    /\ UNCHANGED <<csr, bk, sys, gcn, mle>>

ToString(o, inplace, r) ==
    /\ Tick
    /\ Finish("to_string", o, inplace, r, Out(SDToString(View(o)), View(o).tab), TRUE)
    /\ UNCHANGED <<csr, bk, sys, gcn, mle>>

StepForward(o, inplace, r) ==
    /\ Tick
    /\ \A i \in 1..Len(dicts[o].items) :
          ~dicts[o].items[i].k.ss /\ dicts[o].items[i].k.t < MaxShift
    /\ Finish("step_forward", o, inplace, r, SDStepDictKeys(View(o), "step_forward"), TRUE)
    /\ UNCHANGED <<csr, bk, sys, gcn, mle>>

StepBackward(o, inplace, r) ==
    /\ Tick
    /\ \A i \in 1..Len(dicts[o].items) :
          ~dicts[o].items[i].k.ss /\ dicts[o].items[i].k.t > -MaxShift
    /\ Finish("step_backward", o, inplace, r, SDStepDictKeys(View(o), "step_backward"), TRUE)
    /\ UNCHANGED <<csr, bk, sys, gcn, mle>>

ToSs(o, inplace, r) ==
    /\ Tick
    /\ Finish("to_ss", o, inplace, r, SDStepDictKeys(View(o), "to_ss"), TRUE)
    /\ UNCHANGED <<csr, bk, sys, gcn, mle>>

SortKeys(o, inplace, r) ==
    /\ Tick
    /\ Finish("sort_keys", o, inplace, r, Out(SDSortKeys(View(o)), View(o).tab), TRUE)
    /\ UNCHANGED <<csr, bk, sys, gcn, mle>>

ValuesToFloat(o, inplace, r) ==
    /\ Tick
    /\ Finish("values_to_float", o, inplace, r, Out(SDValuesToFloat(View(o)), View(o).tab), TRUE)
    /\ UNCHANGED <<csr, bk, sys, gcn, mle>>

FloatToValues(o, inplace, r) ==
    /\ Tick
    /\ Finish("float_to_values", o, inplace, r, Out(SDFloatToValues(View(o)), View(o).tab), TRUE)
    /\ UNCHANGED <<csr, bk, sys, gcn, mle>>

NoCall == Call("none", 0, 0, NoKey, FALSE, "none", 0)

Init ==
    /\ dicts = [o \in Objs |-> Obj(<<>>, FALSE, o)]
    /\ tabs = [t \in TabIds |-> EmptyTab]
    /\ last = NoCall
    /\ calls = 0
    /\ csr = <<>> /\ bk = <<>> /\ sys = <<>> /\ gcn = <<>> /\ mle = <<>>

\* inplace=True returns nothing, so the slot of the result is then immaterial
Slots(inplace) == IF inplace THEN {0} ELSE Objs

Next ==
    \/ \E r \in Objs, pd \in PlainDicts : Construct(r, pd)
    \/ \E o \in Objs, k \in InputKeys, v \in InputVals : SetItem(o, k, v)
    \/ \E o \in Objs : \E i \in 1..Len(dicts[o].items) : DelItem(o, dicts[o].items[i].k)
    \/ \E o \in Objs, pd \in SmallDicts : Update(o, pd)
    \/ \E o \in Objs, k \in InputKeys, v \in InputVals : SetDefault(o, k, v)
    \/ \E o \in Objs, r \in Objs : Copy(o, r)
    \/ \E a \in Objs, b \in Objs, r \in Objs : Or(a, b, r)
    \/ \E o \in Objs, i \in BOOLEAN, n \in NewAssumptions : \E r \in Slots(i) : ToSympy(o, i, n, r)
    \/ \E o \in Objs, i \in BOOLEAN : \E r \in Slots(i) : ToString(o, i, r)
    \/ \E o \in Objs, i \in BOOLEAN : \E r \in Slots(i) : StepForward(o, i, r)
    \/ \E o \in Objs, i \in BOOLEAN : \E r \in Slots(i) : StepBackward(o, i, r)
    \/ \E o \in Objs, i \in BOOLEAN : \E r \in Slots(i) : ToSs(o, i, r)
    \/ \E o \in Objs, i \in BOOLEAN : \E r \in Slots(i) : SortKeys(o, i, r)
    \/ \E o \in Objs, i \in BOOLEAN : \E r \in Slots(i) : ValuesToFloat(o, i, r)
    \/ \E o \in Objs, i \in BOOLEAN : \E r \in Slots(i) : FloatToValues(o, i, r)

Spec == Init /\ [][Next]_vars

(***************************************************************************)
(* The sparse matrices of estimation_utilities.py.  A matrix is a list of  *)
(* rows; Python's index i is index i + 1 here, and the column numbers kept *)
(* in `indices` are Python's, from 0.  `csr` holds the locals of           *)
(* extract_sparse_data_from_model's loop over one matrix and then those of *)
(* matrix_from_csr_data.                                                   *)
(***************************************************************************)
CsrVals == {-1, 0, 1}

At(seq, p) == seq[p + 1]

\* np.zeros(shape)
Zeros(shape) == [i \in 1..shape[1] |-> [j \in 1..shape[2] |-> 0]]

\* The inner loop of the extraction over one row, from column i on: the
\* elements that are not zero are appended to data, their columns to idxs
RECURSIVE ExtractFrom(_, _, _)
ExtractFrom(row, i, acc) ==
    IF i >= Len(row) THEN acc
    ELSE ExtractFrom(row, i + 1,
            IF At(row, i) # 0
            THEN [data |-> Append(acc.data, At(row, i)), idxs |-> Append(acc.idxs, i)]
            ELSE acc)

\* The same loop as it would be if it kept the positive elements only
ExtractPositive(row, data, idxs) ==
    LET keep == {i \in 0..(Len(row) - 1) : At(row, i) > 0}
        RECURSIVE Walk(_, _)
        Walk(i, acc) ==
            IF i >= Len(row) THEN acc
            ELSE Walk(i + 1,
                    IF i \in keep
                    THEN [data |-> Append(acc.data, At(row, i)),
                          idxs |-> Append(acc.idxs, i)]
                    ELSE acc)
    IN  Walk(0, [data |-> data, idxs |-> idxs])

\* The same loop as it would be if it counted the columns from 1
ExtractColumnsFromOne(row, data, idxs) ==
    LET RECURSIVE Walk(_, _)
        Walk(i, acc) ==
            IF i >= Len(row) THEN acc
            ELSE Walk(i + 1,
                    IF At(row, i) # 0
                    THEN [data |-> Append(acc.data, At(row, i)),
                          idxs |-> Append(acc.idxs, i + 1)]
                    ELSE acc)
    IN  Walk(0, [data |-> data, idxs |-> idxs])

ExtractRowEntries(row, data, idxs) ==
    ExtractFrom(row, 0, [data |-> data, idxs |-> idxs])

\* for j, d in zip(indices[start:end], range(start, end)): out[i, j] = data[d]
RECURSIVE FillFrom(_, _, _, _, _, _)
FillFrom(out, i, d, end, indices, data) ==
    IF d >= end \/ d >= Len(indices) THEN out
    ELSE FillFrom([out EXCEPT ![i + 1][At(indices, d) + 1] = At(data, d)],
                  i, d + 1, end, indices, data)

\* The same loop as it would be if it stopped one position early
FillRowShort(out, i, data, indices, idxptrs) ==
    FillFrom(out, i, At(idxptrs, i), At(idxptrs, i + 1) - 1, indices, data)

\* One pass of matrix_from_csr_data's loop over the rows
FillRow(out, i, data, indices, idxptrs) ==
    FillFrom(out, i, At(idxptrs, i), At(idxptrs, i + 1), indices, data)

NoMatrix == <<>>

CsrState(pc, matrix, data, idxs, pointers, shape, out, i) ==
    [pc |-> pc, matrix |-> matrix, data |-> data, idxs |-> idxs,
     pointers |-> pointers, shape |-> shape, out |-> out, i |-> i]

\* The dense matrices given to the extraction, x.tolist() of a Jacobian: one
\* row for each equation of the model, so at least one row
Matrices ==
    UNION {[1..r -> [1..c -> CsrVals]] : r \in 1..MaxRows, c \in 0..MaxCols}

\* Row pointers: shape[0] + 1 positions, from 0 to the number of stored
\* elements, never decreasing
Pointers(rows, nnz) ==
    {p \in [1..(rows + 1) -> 0..nnz] :
        /\ p[1] = 0
        /\ p[rows + 1] = nnz
        /\ \A i \in 1..rows : p[i] <= p[i + 1]}

\* the loop over the rows of `matrix`, one row
ExtractRow ==
    /\ csr.pc = "extract"
    /\ csr.i < Len(csr.matrix)
    /\ LET got == ExtractRowEntries(At(csr.matrix, csr.i), csr.data, csr.idxs)
       IN  csr' = [csr EXCEPT !.data = got.data, !.idxs = got.idxs,
                              !.pointers = Append(csr.pointers, Len(got.idxs)),
                              !.i = csr.i + 1]
    /\ UNCHANGED <<dicts, tabs, last, calls, bk, sys, gcn, mle>>

\* shape = (len(matrix), len(matrix[0])); the tuple goes to matrix_from_csr_data
ExtractDone ==
    /\ csr.pc = "extract"
    /\ csr.i = Len(csr.matrix)
    /\ csr' = [csr EXCEPT !.pc = "dense",
                          !.shape = <<Len(csr.matrix), Len(csr.matrix[1])>>]
    /\ UNCHANGED <<dicts, tabs, last, calls, bk, sys, gcn, mle>>

\* out = np.zeros(shape)
DenseStart ==
    /\ csr.pc = "dense"
    /\ csr' = [csr EXCEPT !.pc = "rows", !.out = Zeros(csr.shape), !.i = 0]
    /\ UNCHANGED <<dicts, tabs, last, calls, bk, sys, gcn, mle>>

\* for i in range(shape[0]), one row
DenseRow ==
    /\ csr.pc = "rows"
    /\ csr.i < csr.shape[1]
    /\ csr' = [csr EXCEPT !.out = FillRow(csr.out, csr.i, csr.data, csr.idxs, csr.pointers),
                          !.i = csr.i + 1]
    /\ UNCHANGED <<dicts, tabs, last, calls, bk, sys, gcn, mle>>

\* return out
DenseReturn ==
    /\ csr.pc = "rows"
    /\ csr.i = csr.shape[1]
    /\ csr' = [csr EXCEPT !.pc = "done"]
    /\ UNCHANGED <<dicts, tabs, last, calls, bk, sys, gcn, mle>>

\* Either a dense matrix enters the extraction loop, or a CSR triple and a
\* shape are given to matrix_from_csr_data
InitCsr ==
    /\ dicts = [o \in Objs |-> Obj(<<>>, FALSE, o)]
    /\ tabs = [t \in TabIds |-> EmptyTab]
    /\ last = NoCall
    /\ calls = 0
    /\ bk = <<>> /\ sys = <<>> /\ gcn = <<>> /\ mle = <<>>
    /\ \/ \E m \in Matrices :
             csr = CsrState("extract", m, <<>>, <<>>, <<0>>, <<0, 0>>, NoMatrix, 0)
       \/ \E rows \in 0..MaxRows, cols \in 1..MaxCols, nnz \in 0..MaxNnz :
             \E data \in [1..nnz -> CsrVals], idxs \in [1..nnz -> 0..(cols - 1)],
                ptrs \in Pointers(rows, nnz) :
                csr = CsrState("dense", NoMatrix, data, idxs, ptrs, <<rows, cols>>,
                               NoMatrix, 0)

NextCsr == ExtractRow \/ ExtractDone \/ DenseStart \/ DenseRow \/ DenseReturn

SpecCsr == InitCsr /\ [][NextCsr]_vars

(***************************************************************************)
(* The Blanchard-Kahn check of estimation_utilities.py.  Numbers are       *)
(* integers in units of tol, so tol itself is 1.  scipy's ordqz is outside *)
(* the repository: it either fails or gives the two diagonals, here one    *)
(* (a, b) = (diag(A)[k], diag(B)[k]) for each row of the pencil.  An       *)
(* eigenvalue b / (a + tol) is kept as the fraction num / den.             *)
(***************************************************************************)
Tol == 1

Abs(x) == IF x < 0 THEN -x ELSE x

RECURSIVE SumSeq(_)
SumSeq(q) == IF q = <<>> THEN 0 ELSE Head(q) + SumSeq(Tail(q))

Column(m, j) == [i \in 1..Len(m) |-> m[i][j]]

\* C.sum(axis=0)[j] and np.sum(np.abs(C), axis=0)[j], j from 0
ColSum(m, j) == SumSeq(Column(m, j + 1))
AbsColSum(m, j) == SumSeq([i \in 1..Len(m) |-> Abs(m[i][j + 1])])

\* Columns of C of n rows: zero, positive but not above tol, negative,
\* positive, and of two entries that cancel
Columns(n) ==
    {[i \in 1..n |-> 0],
     [i \in 1..n |-> IF i = 1 THEN 1 ELSE 0],
     [i \in 1..n |-> IF i = 1 THEN -2 ELSE 0],
     [i \in 1..n |-> IF i = 1 THEN 2 ELSE 0],
     [i \in 1..n |-> IF i = 1 THEN 2 ELSE IF i = 2 THEN -2 ELSE 0]}

MatricesC ==
    UNION {{[i \in 1..n |-> [j \in 1..k |-> cols[j][i]]] : cols \in [1..k -> Columns(n)]} :
              n \in 1..MaxVars, k \in 1..MaxVars}

\* The pairs of the diagonals, b = b + bi * 1j: b = 0; a = 0; a stable
\* eigenvalue; an unstable one that is negative and one that is imaginary;
\* a = -tol
GevPairs == <<[a |-> 2, b |-> 0, bi |-> 0], [a |-> 0, b |-> 3, bi |-> 0],
              [a |-> 3, b |-> 1, bi |-> 0], [a |-> 1, b |-> -3, bi |-> 0],
              [a |-> 1, b |-> 0, bi |-> 3], [a |-> -1, b |-> 1, bi |-> 0]>>

\* gev of n rows; the rows are listed in one order, eig is sorted afterwards
Gevs(n) ==
    {[k \in 1..n |-> GevPairs[ix[k]]] :
        ix \in {f \in [1..n -> 1..Len(GevPairs)] :
                    \A k \in 1..(n - 1) : f[k] <= f[k + 1]}}

\* lead_var_idx = np.where(np.sum(np.abs(C), axis=0) > tol)[0]
LeadVarIdx(C) == {j \in 0..(Len(C[1]) - 1) : AbsColSum(C, j) > Tol}

\* n_forward = int((C.sum(axis=0) > 0).sum())
NForward(C) == Cardinality({j \in 0..(Len(C[1]) - 1) : ColSum(C, j) > 0})

\* the indices of a set in ascending order, as np.where gives them
RECURSIVE Ascending(_)
Ascending(S) ==
    IF S = {} THEN <<>>
    ELSE LET m == CHOOSE x \in S : \A y \in S : x <= y
         IN  <<m>> \o Ascending(S \ {m})

\* the index set as it would be without the shift of the lead variables
EqsAndLeadsNoShift(n_vars, lead) ==
    [k \in 1..n_vars |-> k - 1] \o Ascending(lead)

\* eqs_and_leads_idx = np.hstack((np.arange(n_vars), lead_var_idx + n_vars))
EqsAndLeadsIdx(n_vars, lead) ==
    [k \in 1..n_vars |-> k - 1] \o Ascending({j + n_vars : j \in lead})

\* eigenval = gev[:, 1] / (gev[:, 0] + tol): (num + im * 1j) / den
Eigenval(g) == [num |-> g.b, im |-> g.bi, den |-> g.a + Tol]

\* a row of eig: np.abs, np.real and np.imag of an eigenvalue; the modulus
\* is kept as its square, all three over den
Row(e) == [mod2 |-> e.num * e.num + e.im * e.im, re |-> e.num, im |-> e.im,
           den |-> e.den]

DivByZero(gev) == \E k \in 1..Len(gev) : gev[k].a + Tol = 0

\* np.abs(eigenval) > 0: a quotient that is not zero; x / 0 is inf for
\* x # 0 and nan for 0 / 0, and nan > 0 is False
ModPositive(e) == e.num # 0 \/ e.im # 0

\* eig[:, 0] > 1
ModAboveOne(r) == IF r.den = 0 THEN r.mod2 # 0 ELSE r.mod2 > r.den * r.den

\* the order of eig[:, 0]
ModLess(r, s) ==
    IF s.den = 0 THEN r.den # 0
    ELSE r.den # 0 /\ r.mod2 * s.den * s.den < s.mod2 * r.den * r.den

\* pos_idx = np.where(np.abs(eigenval) > 0); eig[:, 0..2] = ...[pos_idx]
RECURSIVE KeepPositive(_)
KeepPositive(ev) ==
    IF ev = <<>> THEN <<>>
    ELSE IF ModPositive(Head(ev)) THEN <<Row(Head(ev))>> \o KeepPositive(Tail(ev))
    ELSE KeepPositive(Tail(ev))

\* the eigenvalues whose denominator factor a has |a| > tol
RECURSIVE KeepDenominator(_)
KeepDenominator(ev) ==
    IF ev = <<>> THEN <<>>
    ELSE IF Abs(Head(ev).den - Tol) > Tol
         THEN <<Row(Head(ev))>> \o KeepDenominator(Tail(ev))
         ELSE KeepDenominator(Tail(ev))

\* eig[np.argsort(eig[:, 0]), :]
RECURSIVE SortByModulus(_)
SortByModulus(eig) ==
    IF eig = <<>> THEN <<>>
    ELSE LET rest == SortByModulus(Tail(eig))
             n == Cardinality({k \in 1..Len(rest) : ~ModLess(Head(eig), rest[k])})
         IN  SubSeq(rest, 1, n) \o <<Head(eig)>> \o SubSeq(rest, n + 1, Len(rest))

\* the rows as they would be in the order of their real parts
RECURSIVE SortByRealPart(_)
SortByRealPart(eig) ==
    IF eig = <<>> THEN <<>>
    ELSE LET rest == SortByRealPart(Tail(eig))
             n == Cardinality({k \in 1..Len(rest) :
                      rest[k].re * Head(eig).den <= Head(eig).re * rest[k].den})
         IN  SubSeq(rest, 1, n) \o <<Head(eig)>> \o SubSeq(rest, n + 1, Len(rest))

\* sorted_idx = np.argsort(eig[:, 0]); return eig[sorted_idx, :]
SortedEig(eig) == SortByModulus(eig)

\* n_g_one = (eig[:, 0] > 1).sum()
NGOne(eig) == Cardinality({k \in 1..Len(eig) : ModAboveOne(eig[k])})

\* return n_forward <= n_g_one, as it would be with <
BkStrict(n_forward, eig) == n_forward < NGOne(eig)

\* return n_forward <= n_g_one
BkResult(n_forward, eig) == n_forward <= NGOne(eig)

\* where an exception of compute_eigenvalues would go without the try
Uncaught == "raised"

\* except Exception: return False
Caught == "except"

BkState(pc, n_eq, n_vars, C, n_forward, lead, gev, eig, err, ret) ==
    [pc |-> pc, n_eq |-> n_eq, n_vars |-> n_vars, C |-> C, n_forward |-> n_forward,
     lead |-> lead, idx |-> <<>>, gamma |-> <<0, 0>>, gev |-> gev, eig |-> eig,
     err |-> err, ret |-> ret]

NoRet == "none"

\* check_bk_condition, line 298
BkNForward ==
    /\ bk.pc = "start"
    /\ bk' = [bk EXCEPT !.pc = "try", !.n_forward = NForward(bk.C)]
    /\ UNCHANGED <<dicts, tabs, last, calls, csr, sys, gcn, mle>>

\* compute_eigenvalues, lines 233-237
CeLeadVars ==
    /\ bk.pc = "try"
    /\ bk' = [bk EXCEPT !.pc = "pencil", !.lead = LeadVarIdx(bk.C),
                        !.idx = EqsAndLeadsIdx(bk.n_vars, LeadVarIdx(bk.C))]
    /\ UNCHANGED <<dicts, tabs, last, calls, csr, sys, gcn, mle>>

\* Gamma_0 and Gamma_1: np.vstack of blocks of 2 * n_vars and of 2 * n_eq
\* columns raises unless the system is square; the stacked matrices have
\* 2 * n_eq rows and columns, of which Gamma[idx, :][:, idx] takes those of idx
CePencil ==
    /\ bk.pc = "pencil"
    /\ IF bk.n_eq # bk.n_vars
       THEN bk' = [bk EXCEPT !.pc = Caught, !.err = "ValueError"]
       ELSE IF \E k \in 1..Len(bk.idx) : bk.idx[k] >= 2 * bk.n_eq
       THEN bk' = [bk EXCEPT !.pc = Caught, !.err = "IndexError"]
       ELSE bk' = [bk EXCEPT !.pc = "ordqz", !.gamma = <<Len(bk.idx), Len(bk.idx)>>]
    /\ UNCHANGED <<dicts, tabs, last, calls, csr, sys, gcn, mle>>

\* linalg.ordqz(-Gamma_0, Gamma_1, sort="ouc", output="complex")
CeOrdqz ==
    /\ bk.pc = "ordqz"
    /\ \/ bk' = [bk EXCEPT !.pc = Caught, !.err = "LinAlgError"]
       \/ \E gev \in Gevs(bk.gamma[1]) :
             bk' = [bk EXCEPT !.pc = "eig", !.gev = gev]
    /\ UNCHANGED <<dicts, tabs, last, calls, csr, sys, gcn, mle>>

\* lines 252-263; a division by zero either gives inf or nan, or raises
CeEig ==
    /\ bk.pc = "eig"
    /\ \/ bk' = [bk EXCEPT !.pc = "count",
                    !.eig = SortedEig(KeepPositive(
                                [k \in 1..Len(bk.gev) |-> Eigenval(bk.gev[k])]))]
       \/ /\ DivByZero(bk.gev)
          /\ bk' = [bk EXCEPT !.pc = Caught, !.err = "ZeroDivisionError"]
    /\ UNCHANGED <<dicts, tabs, last, calls, csr, sys, gcn, mle>>

\* except Exception: return False
BkExcept ==
    /\ bk.pc = "except"
    /\ bk' = [bk EXCEPT !.pc = "done", !.ret = FALSE]
    /\ UNCHANGED <<dicts, tabs, last, calls, csr, sys, gcn, mle>>

\* lines 306-307
BkReturn ==
    /\ bk.pc = "count"
    /\ bk' = [bk EXCEPT !.pc = "done", !.ret = BkResult(bk.n_forward, bk.eig)]
    /\ UNCHANGED <<dicts, tabs, last, calls, csr, sys, gcn, mle>>

\* check_bk_condition(A, B, C, tol) is called; A and B have n_eq rows and
\* n_vars columns
InitBk ==
    /\ dicts = [o \in Objs |-> Obj(<<>>, FALSE, o)]
    /\ tabs = [t \in TabIds |-> EmptyTab]
    /\ last = NoCall
    /\ calls = 0
    /\ csr = <<>> /\ sys = <<>> /\ gcn = <<>> /\ mle = <<>>
    /\ \E C \in MatricesC :
          bk = BkState("start", Len(C), Len(C[1]), C, 0, {}, <<>>, <<>>, "", NoRet)

NextBk ==
    BkNForward \/ CeLeadVars \/ CePencil \/ CeOrdqz \/ CeEig \/ BkExcept \/ BkReturn

SpecBk == InitBk /\ [][NextBk]_vars

(***************************************************************************)
(* The closures of extract_sparse_data_from_model and their evaluation by  *)
(* build_system_matrices.  An expression is known by the symbols that      *)
(* occur in it; a closure, sp.lambdify(inputs, expr), by the names of its  *)
(* arguments and by the symbols left in its body.  The dictionaries of the *)
(* model object are known by their keys.                                   *)
(***************************************************************************)
FreeParams == {"alpha", "beta"}
CalibParams == {"delta"}
SsVars == {"K_ss", "C_ss"}

Expr(zero, syms) == [zero |-> zero, syms |-> syms]

\* Elements of a Jacobian: 0, a number, and derivatives in which
\* parameters and steady-state values occur
Exprs == {Expr(TRUE, {}), Expr(FALSE, {}), Expr(FALSE, {"alpha"}),
          Expr(FALSE, {"beta", "K_ss"}), Expr(FALSE, {"delta", "C_ss"})}

\* value.subs(ss_sub_dict).subs(calib_dict).subs(not_estimated_dict)
Subs(expr, ss_sub, calib, not_estimated) ==
    expr.syms \ (ss_sub \cup calib \cup not_estimated)

\* sp.lambdify(inputs, expr)
Lambdify(inputs, syms) == [args |-> inputs, body |-> syms]

\* inputs = params_to_estimate + requires_numeric_solution
Inputs(params_to_estimate, requires_numeric_solution) ==
    params_to_estimate \cup requires_numeric_solution

\* f(**params_to_use) for a function of the arguments f.args
CallKw(f, kwargs) ==
    IF ~(f.args \subseteq kwargs) THEN "TypeError"
    ELSE IF ~(kwargs \subseteq f.args) THEN "TypeError"
    ELSE IF ~(f.body \subseteq f.args) THEN "NameError"
    ELSE ""

\* the same call as it would be if an argument without a value were 0
CallKwLenient(f, kwargs) ==
    IF ~(kwargs \subseteq f.args) THEN "TypeError" ELSE ""

\* data[i] = f(**params_to_use)
CallClosure(f, kwargs) == CallKw(f, kwargs)

\* lines 192-195: vars_to_estimate restricts the keys when it is given and
\* not empty
ParamsToUse(keys, vars_to_estimate) ==
    IF vars_to_estimate # {} THEN keys \cap vars_to_estimate ELSE keys

SysState(pc, is_none, est, ss_sub, matrix) ==
    [pc |-> pc, is_none |-> is_none, params_to_estimate |-> est, ss_sub |-> ss_sub,
     matrix |-> matrix,
     requires_numeric_solution |-> {}, not_estimated |-> {}, inputs |-> {},
     i |-> 0, fs |-> <<>>, params_to_use |-> {}, err |-> "", result |-> "none"]

\* lines 64-84; params_to_estimate = None stands for the keys of
\* model.param_priors, here the free parameters
SysInputs ==
    /\ sys.pc = "start"
    /\ LET est == IF sys.is_none THEN FreeParams
                  ELSE sys.params_to_estimate
           num == SsVars \ sys.ss_sub
       IN  sys' = [sys EXCEPT !.pc = "extract",
                              !.params_to_estimate = est,
                              !.requires_numeric_solution = num,
                              !.not_estimated = FreeParams \ est,
                              !.inputs = Inputs(est, num)]
    /\ UNCHANGED <<dicts, tabs, last, calls, csr, bk, gcn, mle>>

\* lines 101-112, one element of the matrix
SysElement ==
    /\ sys.pc = "extract"
    /\ sys.i < Len(sys.matrix)
    /\ LET value == At(sys.matrix, sys.i)
       IN  sys' = [sys EXCEPT
                     !.i = sys.i + 1,
                     !.fs = IF value.zero THEN sys.fs
                            ELSE Append(sys.fs,
                                    Lambdify(sys.inputs,
                                             Subs(value, sys.ss_sub, CalibParams,
                                                  sys.not_estimated)))]
    /\ UNCHANGED <<dicts, tabs, last, calls, csr, bk, gcn, mle>>

\* build_system_matrices(param_dict, sparse_datas, vars_to_estimate) on the
\* closures returned: lines 191-200
SysBuild(keys, vars_to_estimate) ==
    /\ sys.pc = "extract"
    /\ sys.i = Len(sys.matrix)
    /\ sys' = [sys EXCEPT !.pc = "build", !.i = 0,
                          !.params_to_use = ParamsToUse(keys, vars_to_estimate)]
    /\ UNCHANGED <<dicts, tabs, last, calls, csr, bk, gcn, mle>>

\* lines 201-203, one closure
SysEval ==
    /\ sys.pc = "build"
    /\ sys.i < Len(sys.fs)
    /\ LET e == CallClosure(At(sys.fs, sys.i), sys.params_to_use)
       IN  IF e # "" THEN sys' = [sys EXCEPT !.pc = "done", !.err = e]
           ELSE sys' = [sys EXCEPT !.i = sys.i + 1]
    /\ UNCHANGED <<dicts, tabs, last, calls, csr, bk, gcn, mle>>

\* lines 204-206
SysReturn ==
    /\ sys.pc = "build"
    /\ sys.i = Len(sys.fs)
    /\ sys' = [sys EXCEPT !.pc = "done", !.result = "matrices"]
    /\ UNCHANGED <<dicts, tabs, last, calls, csr, bk, gcn, mle>>

InitSys ==
    /\ dicts = [o \in Objs |-> Obj(<<>>, FALSE, o)]
    /\ tabs = [t \in TabIds |-> EmptyTab]
    /\ last = NoCall
    /\ calls = 0
    /\ csr = <<>> /\ bk = <<>> /\ gcn = <<>> /\ mle = <<>>
    /\ \E is_none \in BOOLEAN, est \in SUBSET FreeParams, ss_sub \in SUBSET SsVars,
          n \in 1..MaxExprs :
          \E matrix \in [1..n -> Exprs] :
             /\ is_none => est = {}
             /\ sys = SysState("start", is_none, est, ss_sub, matrix)

NextSys ==
    \/ SysInputs
    \/ SysElement
    \/ \E keys \in SUBSET (FreeParams \cup SsVars), vars_to_estimate \in SUBSET FreeParams :
          SysBuild(keys, vars_to_estimate)
    \/ SysEval
    \/ SysReturn

SpecSys == InitSys /\ [][NextSys]_vars

(***************************************************************************)
(* The distribution declarations of a model file: preprocess_gcn and       *)
(* preprocess_distribution_string, as tests/test_distribution_parser.py    *)
(* uses them.  A statement `name ~ Kind(p = v, ...) = value;` of a shocks  *)
(* or calibration section is the list of the tokens that follow `~`.       *)
(***************************************************************************)
KindNames == {"N", "norm"}
ParamNames == {"mean", "sd", "mu"}
ValueToks == {"0", "1", "0.5"}

Pair(name, eq, value) == <<name, eq, value>>

\* The distribution texts of the tests, and one with two defects
DistTexts ==
    [ok           |-> <<"N", "(">> \o Pair("mean", "=", "0") \o <<",">>
                        \o Pair("sd", "=", "1") \o <<")">>,
     ok_norm      |-> <<"norm", "(">> \o Pair("mu", "=", "0") \o <<",">>
                        \o Pair("sd", "=", "1") \o <<")">>,
     extra_open   |-> <<"N", "(", "(">> \o Pair("mean", "=", "0") \o <<",">>
                        \o Pair("sd", "=", "1") \o <<")">>,
     extra_close  |-> <<"N", "(">> \o Pair("mean", "=", "0") \o <<",">>
                        \o Pair("sd", "=", "1") \o <<")", ")">>,
     extra_equals |-> <<"N", "(">> \o Pair("mean", "==", "0") \o <<",">>
                        \o Pair("sd", "=", "1") \o <<")">>,
     no_comma     |-> <<"N", "(">> \o Pair("mean", "=", "0")
                        \o Pair("sd", "=", "1") \o <<")">>,
     repeated     |-> <<"N", "(">> \o Pair("mean", "=", "0") \o <<",">>
                        \o Pair("mean", "=", "1") \o <<")">>,
     repeated_no_comma |-> <<"N", "(">> \o Pair("mean", "=", "0")
                        \o Pair("mean", "=", "1") \o <<")">>]

Stmt(section, name, rhs) == [section |-> section, name |-> name, rhs |-> rhs]

InitialValue == <<"=", "0.5">>

\* The declarations a model text may hold: a shock or a parameter, any of
\* the distribution texts, with or without an initial value
Stmts ==
    {Stmt(sn[1], sn[2], DistTexts[d] \o init) :
        sn \in {<<"shocks", "epsilon[]">>, <<"calibration", "alpha">>,
                <<"calibration", "rho">>},
        d \in DOMAIN DistTexts,
        init \in {<<>>, InitialValue}}

\* The trailing `= initial_value` of a statement is what follows the last
\* closing parenthesis
HasInitialValue(rhs) ==
    /\ Len(rhs) >= 3
    /\ rhs[Len(rhs) - 1] = "="
    /\ rhs[Len(rhs) - 2] = ")"
    /\ rhs[Len(rhs)] \in ValueToks

WithoutInitialValue(rhs) ==
    IF HasInitialValue(rhs) THEN SubSeq(rhs, 1, Len(rhs) - 2) ELSE rhs

\* The string that preprocess_gcn records: the distribution of a parameter
\* without its initial value, the whole declaration of a shock
RawString(stmt) ==
    IF stmt.section = "calibration" THEN WithoutInitialValue(stmt.rhs) ELSE stmt.rhs

\* the string recorded with the initial value left in
RawStringWhole(stmt) == stmt.rhs

RecordedString(stmt) == RawString(stmt)

\* the requirement of an initial value as it would be if made of shocks too
NeedsInitialValueAlways(stmt) == TRUE

\* a calibration declaration needs an initial value, a shock does not
NeedsInitialValue(stmt) == stmt.section = "calibration"

MissingInitialValue(stmt) == NeedsInitialValue(stmt) /\ ~HasInitialValue(stmt.rhs)

\* prior_dict[name] = raw: a dict keeps the place of a key it holds already
PriorIndex(pd, name) == {k \in 1..Len(pd) : pd[k].name = name}

PriorSet(pd, name, raw) ==
    IF PriorIndex(pd, name) = {}
    THEN Append(pd, [name |-> name, raw |-> raw])
    ELSE [k \in 1..Len(pd) |-> IF pd[k].name = name
                               THEN [name |-> name, raw |-> raw] ELSE pd[k]]

\* `name = value` pairs separated by commas
PairsOk(q) ==
    /\ Len(q) % 4 = 3
    /\ \A k \in 1..Len(q) :
          CASE k % 4 = 1 -> q[k] \in ParamNames
            [] k % 4 = 2 -> q[k] = "="
            [] k % 4 = 3 -> q[k] \in ValueToks
            [] OTHER     -> q[k] = ","

\* Kind(p1=v1, p2=v2, ...): one pair of parentheses around the pairs
WellFormed(raw) ==
    /\ Len(raw) >= 6
    /\ raw[1] \in KindNames
    /\ raw[2] = "("
    /\ raw[Len(raw)] = ")"
    /\ PairsOk(SubSeq(raw, 3, Len(raw) - 1))

\* the same test as it would be if `==` were read as `=`
PairsOkDoubleEquals(q) ==
    /\ Len(q) % 4 = 3
    /\ \A k \in 1..Len(q) :
          CASE k % 4 = 1 -> q[k] \in ParamNames
            [] k % 4 = 2 -> q[k] \in {"=", "=="}
            [] k % 4 = 3 -> q[k] \in ValueToks
            [] OTHER     -> q[k] = ","

WellFormedDoubleEquals(raw) ==
    /\ Len(raw) >= 6
    /\ raw[1] \in KindNames
    /\ raw[2] = "("
    /\ raw[Len(raw)] = ")"
    /\ PairsOkDoubleEquals(SubSeq(raw, 3, Len(raw) - 1))

ValidString(raw) == WellFormed(raw)

\* the parameters of a well-formed string, in their order
ParamPairs(raw) ==
    [k \in 1..((Len(raw) - 2) \div 4) |-> [name |-> raw[4 * k - 1], value |-> raw[4 * k + 1]]]

Repeated(pairs) == \E k, l \in 1..Len(pairs) : k # l /\ pairs[k].name = pairs[l].name

\* the alias table of the kinds
CanonKind(kind) == IF kind \in {"N", "norm"} THEN "normal" ELSE kind

\* a duplicate as it would be treated if the later value replaced the earlier
DuplicateIgnored(pairs) == FALSE

DuplicateFound(pairs) == Repeated(pairs)

\* preprocess_distribution_string(variable_name, d_string)
preprocess_distribution_string(raw) ==
    IF ~ValidString(raw) THEN [err |-> "InvalidDistributionException", kind |-> "", params |-> <<>>]
    ELSE IF DuplicateFound(ParamPairs(raw))
         THEN [err |-> "RepeatedParameterException", kind |-> "", params |-> <<>>]
         ELSE [err |-> "", kind |-> CanonKind(raw[1]), params |-> ParamPairs(raw)]

GcnState(pc, text) ==
    [pc |-> pc, text |-> text, i |-> 0, prior_dict |-> <<>>, err |-> "",
     j |-> 0, parsed |-> <<>>]

\* preprocess_gcn, one `~` statement of the text
GcnStatement ==
    /\ gcn.pc = "preprocess"
    /\ gcn.i < Len(gcn.text)
    /\ LET stmt == At(gcn.text, gcn.i)
       IN  IF MissingInitialValue(stmt)
           THEN gcn' = [gcn EXCEPT !.pc = "done",
                                   !.err = "MissingParameterValueException"]
           ELSE gcn' = [gcn EXCEPT !.i = gcn.i + 1,
                                   !.prior_dict = PriorSet(gcn.prior_dict, stmt.name,
                                                           RecordedString(stmt))]
    /\ UNCHANGED <<dicts, tabs, last, calls, csr, bk, sys, mle>>

\* preprocess_gcn returns (model, prior_dict)
GcnReturn ==
    /\ gcn.pc = "preprocess"
    /\ gcn.i = Len(gcn.text)
    /\ gcn' = [gcn EXCEPT !.pc = "priors"]
    /\ UNCHANGED <<dicts, tabs, last, calls, csr, bk, sys, mle>>

\* for param_name, distribution_string in prior_dict.items():
\*     preprocess_distribution_string(param_name, distribution_string)
DistString ==
    /\ gcn.pc = "priors"
    /\ gcn.j < Len(gcn.prior_dict)
    /\ gcn' = [gcn EXCEPT !.j = gcn.j + 1,
                          !.parsed = Append(gcn.parsed,
                              preprocess_distribution_string(At(gcn.prior_dict, gcn.j).raw))]
    /\ UNCHANGED <<dicts, tabs, last, calls, csr, bk, sys, mle>>

DistDone ==
    /\ gcn.pc = "priors"
    /\ gcn.j = Len(gcn.prior_dict)
    /\ gcn' = [gcn EXCEPT !.pc = "done"]
    /\ UNCHANGED <<dicts, tabs, last, calls, csr, bk, sys, mle>>

\* The texts: the declarations of the shocks sections before those of the
\* calibration sections, or in any other order
InitGcn ==
    /\ dicts = [o \in Objs |-> Obj(<<>>, FALSE, o)]
    /\ tabs = [t \in TabIds |-> EmptyTab]
    /\ last = NoCall
    /\ calls = 0
    /\ csr = <<>> /\ bk = <<>> /\ sys = <<>> /\ mle = <<>>
    /\ \E n \in 1..MaxStmts : \E text \in [1..n -> Stmts] :
          gcn = GcnState("preprocess", text)

NextGcn == GcnStatement \/ GcnReturn \/ DistString \/ DistDone

SpecGcn == InitGcn /\ [][NextGcn]_vars

(***************************************************************************)
(* Properties of SymbolDictionary.                                         *)
(*                                                                         *)
(* The mode of an instance is its is_sympy flag.  A property of one call   *)
(* is stated on the step that makes it: last' names the call, the unprimed *)
(* variables are the heap before it, the primed ones the heap after it.    *)
(***************************************************************************)
NonEmpty(o) == Len(dicts[o].items) > 0
AllStr(items) == \A i \in 1..Len(items) : IsStr(items[i].k)
AllSymbols(items) == \A i \in 1..Len(items) : IsSymbol(items[i].k)
KeysOneMode(items) == AllStr(items) \/ AllSymbols(items)
TableOf(o) == tabs[dicts[o].asm]
Transforms ==
    {"to_sympy", "to_string", "step_forward", "step_backward", "to_ss",
     "sort_keys", "values_to_float", "float_to_values"}

\* C1: after any sequence of calls, the keys of every instance are all strings
\* or all symbols, and none is of another type.
C1_KeysOneMode == \A o \in Objs : KeysOneMode(dicts[o].items)

\* C2, as claimed: an instance that has held a key keeps its flag under every
\* later item assignment and key deletion.  (An instance has held a key when it
\* holds one now, or when the call before this one deleted a key from it.)
C2_FlagNeverChanges ==
    [][LET o == last'.recv IN
        (/\ last'.op \in {"setitem", "delitem"}
         /\ \/ NonEmpty(o)
            \/ last.op = "delitem" /\ last.recv = o /\ last.err = "none")
        => dicts'[o].is_sympy = dicts[o].is_sympy]_vars

\* C2, amended: under item assignments and key deletions the flag changes only
\* by an assignment into an instance that is empty at that moment, which sets
\* the flag from the type of the assigned key.
C2_FlagFixedWhileNonEmpty ==
    [][LET o == last'.recv IN
        (last'.op \in {"setitem", "delitem"} /\ dicts'[o].is_sympy # dicts[o].is_sympy)
        => /\ last'.op = "setitem"
           /\ ~NonEmpty(o)
           /\ dicts'[o].is_sympy = IsSymbol(last'.key)]_vars

\* An assignment has added a second key to an instance
C2_Witness ==
    /\ last.op = "setitem" /\ last.err = "none"
    /\ Len(dicts[last.recv].items) = 2
    /\ ~SameKey(dicts[last.recv].items[1].k, last.key)

\* C3: a transform called with inplace=False that returns a new instance leaves
\* the receiver's entries, flag and assumption table as they were.
C3_TransformLeavesReceiver ==
    [][LET o == last'.recv IN
        (/\ last'.op \in Transforms /\ ~last'.inplace
         /\ last'.err = "none" /\ last'.ret # o)
        => /\ dicts'[o] = dicts[o]
           /\ tabs'[dicts[o].asm] = tabs[dicts[o].asm]]_vars

\* C4: a | b with both operands non-empty and of different modes raises (the
\* mode-mismatch ValueError, or the KeyError of copy() when the left operand
\* itself holds keys of two types) and returns nothing; it raises the
\* ValueError whenever the left operand's keys are of one mode.
C4_MergeModeMismatchRaises ==
    [][LET a == last'.recv
           b == last'.other
       IN  (/\ last'.op = "or"
            /\ NonEmpty(a) /\ NonEmpty(b)
            /\ dicts[a].is_sympy # dicts[b].is_sympy)
           => /\ last'.err \in {"ValueError", "KeyError"}
              /\ last'.ret = 0
              /\ dicts' = dicts
              /\ KeysOneMode(dicts[a].items) => last'.err = "ValueError"]_vars

\* A merge of a string-mode and a symbol-mode instance has raised
C4_Witness ==
    /\ last.op = "or" /\ last.err = "ValueError"
    /\ NonEmpty(last.recv) /\ NonEmpty(last.other)
    /\ AllStr(dicts[last.recv].items) /\ AllSymbols(dicts[last.other].items)

\* C5: for non-empty a and b of one mode, a | b holds exactly the keys of a and
\* of b, b's value for every key of b and a's value for the others, has the
\* operands' mode, and its assumption table has the names of both tables, each
\* with the assumptions one of the operands records for it.
C5_MergeIsUnionRightWins ==
    [][LET a == last'.recv
           b == last'.other
           res == dicts'[last'.ret]
           rt == tabs'[res.asm]
       IN  (/\ last'.op = "or" /\ last'.err = "none"
            /\ NonEmpty(a) /\ NonEmpty(b)
            /\ dicts[a].is_sympy = dicts[b].is_sympy)
           => /\ \A k \in {dicts[a].items[i].k : i \in 1..Len(dicts[a].items)}
                        \cup {dicts[b].items[i].k : i \in 1..Len(dicts[b].items)} :
                    /\ HasKey(res.items, k)
                    /\ DictGet(res.items, k) =
                          IF HasKey(dicts[b].items, k) THEN DictGet(dicts[b].items, k)
                          ELSE DictGet(dicts[a].items, k)
              /\ \A i \in 1..Len(res.items) :
                    HasKey(dicts[a].items, res.items[i].k)
                    \/ HasKey(dicts[b].items, res.items[i].k)
              /\ \A i, j \in 1..Len(res.items) :
                    SameKey(res.items[i].k, res.items[j].k) => i = j
              /\ res.is_sympy = dicts[a].is_sympy
              /\ TabNames(rt) = TabNames(TableOf(a)) \cup TabNames(TableOf(b))
              /\ \A n \in TabNames(rt) : rt[n] \in {TableOf(a)[n], TableOf(b)[n]}]_vars

\* A merge of two non-empty instances has returned two keys, one from each
\* operand, or one key with the right operand's value
C5_Witness ==
    /\ last.op = "or" /\ last.err = "none"
    /\ last.ret = last.other /\ last.recv # last.other
    /\ Len(dicts[last.recv].items) = 1
    /\ Len(dicts[last.ret].items) = 2
    /\ TabNames(TableOf(last.ret)) = Bases

\* C6: when exactly one operand of a | b is empty, the result has the entries
\* and the mode of the other operand, and its assumption table has every name
\* of both operands' tables.
C6_MergeWithEmpty ==
    [][LET a == last'.recv
           b == last'.other
           full == IF NonEmpty(a) THEN a ELSE b
           res == dicts'[last'.ret]
       IN  (/\ last'.op = "or" /\ last'.err = "none"
            /\ NonEmpty(a) # NonEmpty(b))
           => /\ res.items = dicts[full].items
              /\ res.is_sympy = dicts[full].is_sympy
              /\ TabNames(TableOf(a)) \cup TabNames(TableOf(b))
                    \subseteq TabNames(tabs'[res.asm])]_vars

\* A merge of an empty left operand whose table names x with a symbol-mode
\* right operand holding only y has returned, with both names in its table
C6_Witness ==
    /\ last.op = "or" /\ last.err = "none"
    /\ last.recv # last.other /\ last.ret = last.other
    /\ ~NonEmpty(last.recv) /\ TabNames(TableOf(last.recv)) = {"x"}
    /\ Len(dicts[last.ret].items) = 1
    /\ dicts[last.ret].is_sympy
    /\ dicts[last.ret].items[1].k.base = "y"
    /\ TabNames(TableOf(last.ret)) = Bases

\* C7: an assignment of a string key to a non-empty symbol-mode instance, or of
\* a symbol key to a non-empty string-mode instance, raises KeyError and
\* leaves entries, flag and assumption table as they were.
C7_BadAssignmentRaises ==
    [][LET o == last'.recv IN
        (/\ last'.op = "setitem"
         /\ NonEmpty(o)
         /\ \/ dicts[o].is_sympy /\ IsStr(last'.key)
            \/ ~dicts[o].is_sympy /\ IsSymbol(last'.key))
        => /\ last'.err = "KeyError"
           /\ dicts' = dicts
           /\ tabs' = tabs]_vars

\* A string key was refused by a symbol-mode instance
C7_Witness ==
    /\ last.op = "setitem" /\ last.err = "KeyError"
    /\ IsStr(last.key)
    /\ NonEmpty(last.recv) /\ dicts[last.recv].is_sympy

\* C8: d.to_sympy().to_string(), for a non-empty string-mode d, is a string-mode
\* instance with the entries and the assumption table of d.  (The step is the
\* to_string call on what the to_sympy call before it returned from d.)
C8_RoundTrip ==
    [][LET d == last.recv
           res == dicts'[last'.ret]
       IN  (/\ last.op = "to_sympy" /\ last.err = "none" /\ ~last.inplace /\ last.dflt
            /\ last.ret # d
            /\ NonEmpty(d) /\ ~dicts[d].is_sympy /\ AllStr(dicts[d].items)
            /\ last'.op = "to_string" /\ ~last'.inplace /\ last'.recv = last.ret)
           => /\ last'.err = "none"
              /\ ~res.is_sympy
              /\ res.items = dicts[d].items
              /\ tabs'[res.asm] = TableOf(d)]_vars

(***************************************************************************)
(* Properties of the sparse matrices, under SpecCsr.                       *)
(***************************************************************************)
\* The positions of data that the row pointers give to row i
RowPositions(i) == {p \in 0..(Len(csr.data) - 1) :
                        At(csr.pointers, i) <= p /\ p < At(csr.pointers, i + 1)}

OutHasShape ==
    /\ Len(csr.out) = csr.shape[1]
    /\ \A i \in 1..Len(csr.out) : Len(csr.out[i]) = csr.shape[2]

\* every stored element is found at its row and column, the rest is zero
OutMatchesTriple ==
    \A i \in 0..(csr.shape[1] - 1) :
        /\ \A p \in RowPositions(i) :
              At(At(csr.out, i), At(csr.idxs, p)) = At(csr.data, p)
        /\ \A j \in 0..(csr.shape[2] - 1) :
              (\A p \in RowPositions(i) : At(csr.idxs, p) # j)
              => At(At(csr.out, i), j) = 0

NoColumnTwiceInARow ==
    \A i \in 0..(csr.shape[1] - 1) :
        \A p, q \in RowPositions(i) : At(csr.idxs, p) = At(csr.idxs, q) => p = q

C10_RoundTrip ==
    (csr.pc = "done" /\ csr.matrix # NoMatrix) => csr.out = csr.matrix

\* A matrix with a row that holds a zero and a negative element, and with a
\* positive element, went round
C10_Witness ==
    /\ csr.pc = "done"
    /\ csr.matrix # NoMatrix
    /\ csr.out = csr.matrix
    /\ \E i \in 1..Len(csr.matrix) :
          \E j, k \in 1..Len(csr.matrix[i]) :
             csr.matrix[i][j] = 0 /\ csr.matrix[i][k] < 0
    /\ \E i \in 1..Len(csr.matrix) :
          \E j \in 1..Len(csr.matrix[i]) : csr.matrix[i][j] > 0

(***************************************************************************)
(* Properties of the Blanchard-Kahn check, under SpecBk.                   *)
(***************************************************************************)
BkReturned == bk.pc = "done" /\ bk.err = ""

Unstable == {k \in 1..Len(bk.eig) :
                IF bk.eig[k].den = 0 THEN bk.eig[k].mod2 # 0
                ELSE bk.eig[k].mod2 > bk.eig[k].den * bk.eig[k].den}

\* C11: when the eigenvalue computation succeeds, check_bk_condition returns
\* True if and only if at least n_forward of the reported eigenvalues have a
\* modulus above 1; so True with exactly n_forward of them and False with
\* n_forward - 1.
C11_TrueIffEnoughUnstable ==
    BkReturned => (bk.ret = (Cardinality(Unstable) >= bk.n_forward))

\* exactly n_forward unstable eigenvalues, one at least, and the answer is True
C11_Witness ==
    /\ BkReturned
    /\ bk.n_forward >= 1
    /\ Cardinality(Unstable) = bk.n_forward
    /\ Len(bk.eig) > bk.n_forward
    /\ bk.ret = TRUE

\* C12: check_bk_condition never raises; when the pencil construction or the
\* ordered decomposition of compute_eigenvalues fails, it returns False.
C12_FailureGivesFalse ==
    /\ bk.pc # Uncaught
    /\ (bk.pc = "done" /\ bk.err # "") => bk.ret = FALSE

\* the decomposition failed and False was returned
C12_Witness ==
    /\ bk.pc = "done"
    /\ bk.err = "LinAlgError"
    /\ bk.ret = FALSE
    /\ bk.n_forward = 0

\* C13: the n_forward that is compared with the count of unstable eigenvalues
\* is the number of columns of C whose absolute column sum exceeds tol, the
\* columns that compute_eigenvalues takes as lead variables.
C13_NForwardIsLeadCount ==
    bk.pc \in {"pencil", "ordqz", "eig", "count", "except", "done"}
    => bk.n_forward = Cardinality(bk.lead)

\* C20: compute_eigenvalues reports exactly the eigenvalues whose denominator
\* factor is not numerically zero (|denominator| > tol), those with a zero
\* numerator included.
C20_DropsZeroDenominators ==
    bk.pc = "count" =>
        bk.eig = SortByModulus(KeepDenominator(
                    [k \in 1..Len(bk.gev) |-> Eigenval(bk.gev[k])]))

(***************************************************************************)
(* Properties of the closures, under SpecSys.                              *)
(***************************************************************************)
\* C14: build_system_matrices fails with an error and returns no matrices
\* whenever a closure of the sparse data takes a parameter that has no value
\* in the assignment passed to the closures.
C14_MissingParameterFails ==
    (sys.pc = "done"
     /\ \E k \in 1..Len(sys.fs) : ~(sys.fs[k].args \subseteq sys.params_to_use))
    => (sys.err # "" /\ sys.result = "none")

\* a closure takes beta, the assignment has only alpha, and the call failed
C14_Witness ==
    /\ sys.pc = "done"
    /\ sys.fs # <<>>
    /\ "beta" \in sys.fs[1].args
    /\ sys.params_to_use = {"alpha"}
    /\ sys.err = "TypeError"
    /\ sys.result = "none"

\* C19: every closure produced by extract_sparse_data_from_model takes exactly
\* the parameters of params_to_estimate as its inputs, and no steady-state
\* variable or other parameter is left in it.
C19_ClosuresTakeOnlyEstimated ==
    sys.pc \in {"extract", "build", "done"} =>
        \A k \in 1..Len(sys.fs) :
            /\ sys.fs[k].args = sys.params_to_estimate
            /\ sys.fs[k].body \subseteq sys.params_to_estimate

(***************************************************************************)
(* Properties of the distribution declarations, under SpecGcn.             *)
(***************************************************************************)
Returned == gcn.pc \in {"priors", "done"} /\ gcn.err = ""

\* a declaration as a valid model text has it
ValidStmt(stmt) ==
    /\ WellFormed(WithoutInitialValue(stmt.rhs))
    /\ ~Repeated(ParamPairs(WithoutInitialValue(stmt.rhs)))
    /\ HasInitialValue(stmt.rhs) <=> stmt.section = "calibration"

ValidText(text) ==
    /\ \A k \in 1..Len(text) : ValidStmt(text[k])
    /\ \A k, l \in 1..Len(text) : text[k].name = text[l].name => k = l

\* C15: for valid model text the raw prior dictionary has exactly one entry for
\* each `~` declaration, keyed by the declared name, holding the distribution
\* string without its initial value, in the order of the declarations.
C15_OneEntryPerDeclaration ==
    (Returned /\ ValidText(gcn.text)) =>
        /\ Len(gcn.prior_dict) = Len(gcn.text)
        /\ \A k \in 1..Len(gcn.text) :
              /\ gcn.prior_dict[k].name = gcn.text[k].name
              /\ gcn.prior_dict[k].raw = WithoutInitialValue(gcn.text[k].rhs)

\* the text of the tests: a shock, then a parameter with its initial value
C15_Witness ==
    /\ Returned
    /\ ValidText(gcn.text)
    /\ Len(gcn.text) = 2
    /\ gcn.text[1].section = "shocks" /\ gcn.text[2].section = "calibration"
    /\ gcn.prior_dict = <<[name |-> "epsilon[]", raw |-> DistTexts.ok_norm],
                          [name |-> "alpha", raw |-> DistTexts.ok]>>

Recorded(stmt) ==
    \E k \in 1..Len(gcn.prior_dict) : gcn.prior_dict[k].name = stmt.name

\* C16: preprocess_gcn raises MissingParameterValueException for every
\* calibration declaration without a trailing `= initial_value`, and accepts
\* the same declaration in a shocks section.
C16_CalibrationNeedsInitialValue ==
    /\ Returned => \A k \in 1..Len(gcn.text) :
                      gcn.text[k].section = "calibration" => HasInitialValue(gcn.text[k].rhs)
    /\ gcn.err = "MissingParameterValueException" =>
          /\ At(gcn.text, gcn.i).section = "calibration"
          /\ ~HasInitialValue(At(gcn.text, gcn.i).rhs)
    /\ \A k \in 1..gcn.i :
          (gcn.text[k].section = "shocks" /\ ~HasInitialValue(gcn.text[k].rhs))
          => Recorded(gcn.text[k])

\* a shock without an initial value was accepted, the parameter after it was not
C16_Witness ==
    /\ gcn.pc = "done"
    /\ gcn.err = "MissingParameterValueException"
    /\ gcn.i = 1
    /\ gcn.text[1].section = "shocks" /\ gcn.text[1].rhs = DistTexts.ok
    /\ gcn.text[2].section = "calibration" /\ gcn.text[2].rhs = DistTexts.ok
    /\ gcn.prior_dict = <<[name |-> "epsilon[]", raw |-> DistTexts.ok]>>

Typos == {DistTexts.extra_open, DistTexts.extra_close, DistTexts.extra_equals,
          DistTexts.no_comma}

\* a declaration with one of the typos, or a shock with an initial value
TypoStmt(stmt) ==
    \/ stmt.section = "calibration" /\ \E t \in Typos : stmt.rhs = t \o InitialValue
    \/ stmt.section = "shocks" /\ stmt.rhs \in Typos
    \/ stmt.section = "shocks" /\ stmt.rhs = DistTexts.ok \o InitialValue

\* C17: for a declaration with an extra opening or closing parenthesis, `==`
\* for `=`, a missing comma, or a shock with an initial value, preprocess_gcn
\* succeeds and records the raw string, and preprocess_distribution_string on
\* that string raises InvalidDistributionException.
C17_TyposAreInvalid ==
    /\ \A k \in 1..gcn.i :
          (TypoStmt(gcn.text[k]) /\ \A l \in (k + 1)..gcn.i : gcn.text[l].name # gcn.text[k].name)
          => \E e \in 1..Len(gcn.prior_dict) :
                /\ gcn.prior_dict[e].name = gcn.text[k].name
                /\ gcn.prior_dict[e].raw = RawString(gcn.text[k])
                /\ gcn.prior_dict[e].raw \in Typos \cup {DistTexts.ok \o InitialValue}
    /\ \A e \in 1..Len(gcn.parsed) :
          gcn.prior_dict[e].raw \in Typos \cup {DistTexts.ok \o InitialValue}
          => /\ gcn.parsed[e].err = "InvalidDistributionException"
             /\ gcn.parsed[e].params = <<>>

\* `==` in a parameter's distribution and a shock with an initial value, both
\* recorded and both refused
C17_Witness ==
    /\ gcn.pc = "done"
    /\ gcn.err = ""
    /\ gcn.text = <<Stmt("shocks", "epsilon[]", DistTexts.ok \o InitialValue),
                    Stmt("calibration", "alpha", DistTexts.extra_equals \o InitialValue)>>
    /\ gcn.prior_dict[2].raw = DistTexts.extra_equals
    /\ \A e \in 1..2 : gcn.parsed[e].err = "InvalidDistributionException"

\* a parameter name occurs more than once in the string
NameTwice(raw) ==
    \E k, l \in 1..Len(raw) : k # l /\ raw[k] \in ParamNames /\ raw[k] = raw[l]

\* C18, as claimed: preprocess_distribution_string raises
\* RepeatedParameterException for every distribution string in which a
\* parameter name appears more than once, and returns no dictionary.
C18_EveryRepeatIsRepeated ==
    \A e \in 1..Len(gcn.parsed) :
        NameTwice(gcn.prior_dict[e].raw)
        => /\ gcn.parsed[e].err = "RepeatedParameterException"
           /\ gcn.parsed[e].params = <<>>

\* C18, amended: the same for every distribution string that is otherwise well
\* formed, Kind(p1=v1, p2=v2, ...) with nothing after the parenthesis.
C18_RepeatInWellFormedString ==
    \A e \in 1..Len(gcn.parsed) :
        (WellFormed(gcn.prior_dict[e].raw) /\ NameTwice(gcn.prior_dict[e].raw))
        => /\ gcn.parsed[e].err = "RepeatedParameterException"
           /\ gcn.parsed[e].params = <<>>

\* N(mean = 0, mean = 1) was refused for its repeated parameter
C18_Witness ==
    /\ gcn.pc = "done"
    /\ gcn.text = <<Stmt("calibration", "alpha", DistTexts.repeated \o InitialValue)>>
    /\ gcn.prior_dict = <<[name |-> "alpha", raw |-> DistTexts.repeated]>>
    /\ gcn.parsed[1].err = "RepeatedParameterException"

\* the columns of C that are forward-looking
ForwardColumns == {j \in 0..(bk.n_vars - 1) : AbsColSum(bk.C, j) > Tol}

\* C21: for A, B, C of one shape the two matrices given to the ordered
\* decomposition are square of size n_eq + n_forward, taken at the n_eq base
\* indices followed by the companion index n_eq + j of every forward-looking
\* column j, all inside the 2 * n_eq rows and columns of the stacked matrices.
C21_PencilIndexSet ==
    bk.pc \in {"ordqz", "eig", "count"} =>
        /\ bk.gamma = <<bk.n_eq + Cardinality(ForwardColumns),
                        bk.n_eq + Cardinality(ForwardColumns)>>
        /\ Len(bk.idx) = bk.n_eq + Cardinality(ForwardColumns)
        /\ \A k \in 1..bk.n_eq : bk.idx[k] = k - 1
        /\ {bk.idx[k] : k \in (bk.n_eq + 1)..Len(bk.idx)}
              = {bk.n_eq + j : j \in ForwardColumns}
        /\ \A k, l \in 1..Len(bk.idx) : k < l => bk.idx[k] < bk.idx[l]
        /\ \A k \in 1..Len(bk.idx) : bk.idx[k] \in 0..(2 * bk.n_eq - 1)

\* two equations of which only the second has a lead variable
C21_Witness ==
    /\ bk.pc = "ordqz"
    /\ bk.n_eq = 2
    /\ ForwardColumns = {1}
    /\ bk.idx = <<0, 1, 3>>
    /\ bk.gamma = <<3, 3>>

C23_ExtractedCsrWellFormed ==
    (csr.pc \in {"dense", "rows", "done"} /\ csr.matrix # NoMatrix) =>
        /\ Len(csr.pointers) = csr.shape[1] + 1
        /\ csr.pointers[1] = 0
        /\ \A i \in 1..(Len(csr.pointers) - 1) : csr.pointers[i] <= csr.pointers[i + 1]
        /\ csr.pointers[Len(csr.pointers)] = Len(csr.idxs)
        /\ Len(csr.idxs) = Len(csr.data)
        /\ \A p \in 1..Len(csr.idxs) : csr.idxs[p] \in 0..(csr.shape[2] - 1)
        /\ \A i \in 1..(Len(csr.pointers) - 1) :
              \A p, q \in (csr.pointers[i] + 1)..csr.pointers[i + 1] :
                 p < q => csr.idxs[p] < csr.idxs[q]

\* a matrix with a row of zeros and a row of two elements was extracted
C23_Witness ==
    /\ csr.pc = "dense"
    /\ csr.matrix # NoMatrix
    /\ csr.shape = <<2, 2>>
    /\ csr.pointers = <<0, 0, 2>>
    /\ csr.idxs = <<0, 1>>
    /\ Len(csr.data) = 2

(***************************************************************************)
(* Claims about the operands of a merge and about copies.                  *)
(***************************************************************************)
\* The instance in slot o, with its table object, is after the step what it
\* was before it
SameInstance(o) ==
    /\ dicts'[o] = dicts[o]
    /\ tabs'[dicts[o].asm] = tabs[dicts[o].asm]

\* C24: a | b leaves both operands as they were: after the call has returned
\* or raised, every operand that is still bound has the entries, the flag and
\* the assumption table it had before, and an item assignment to the result
\* changes no operand either.
C24_MergeLeavesOperands ==
    [][/\ last'.op = "or"
          => \A o \in {last'.recv, last'.other} :
                (last'.err # "none" \/ last'.ret # o) => SameInstance(o)
       /\ (/\ last.op = "or" /\ last.err = "none"
           /\ last'.op = "setitem" /\ last'.recv = last.ret)
          => \A o \in {last.recv, last.other} \ {last.ret} : SameInstance(o)]_vars

\* C25: a copy and its original are independent: after c = d.copy(), an item
\* assignment, a transform or a merge whose receiver is one of the two leaves
\* the entries, the flag and the assumption table of the other as they were,
\* whichever of the two is the receiver.
C25_CopyIndependent ==
    [][(/\ last.op = "copy" /\ last.err = "none" /\ last.ret # last.recv
        /\ last'.op \in {"setitem", "or"} \cup Transforms
        /\ last'.recv \in {last.recv, last.ret})
       => \A o \in {last.recv, last.ret} \ {last'.recv, last'.ret} :
             SameInstance(o)]_vars

(***************************************************************************)
(* The likelihood of the statsmodels wrapper (shared/statsmodel_convert.py):*)
(* DSGEModel.update, loglike and loglikeobs.                               *)
(*                                                                         *)
(* The wrapper is built around a solved model.  Each evaluation writes the *)
(* parameters into the model, has it solved again and asks it for the      *)
(* Blanchard-Kahn condition; what the model's methods and the Kalman       *)
(* filter answer is chosen freely.  A scalar log-likelihood is kept as a   *)
(* sequence of length one, loglikeobs' array as a sequence of length       *)
(* endog.shape[0].                                                         *)
(***************************************************************************)
\* The value given to invalid parameters, -1e6
InvalidLoglike == -1000000

ParamVals == {1, 2}
\* What ssm.loglike and ssm.loglikeobs may answer, per observation
LlVals == {-3, 2}
\* What prior_dict[name].logpdf(param) may answer: below -1e6, and above it
LogPdfs == {2 * InvalidLoglike, -1}

\* How the try block of update ends: steady_state and solve_model return,
\* one of them raises LinAlgError, or one of them raises something else
SolveOutcomes == {"none", "LinAlgError", "Exception"}
\* The length of what the method returns
RetLen(method, nobs) == IF method = "loglike" THEN 1 ELSE nobs

\* update as it would be if it reported the perturbation's success alone
UpdateOnlyPerturbation(pert_success, condition_satisfied) == pert_success

\* return pert_success & condition_satisfied
UpdateResult(pert_success, condition_satisfied) == pert_success /\ condition_satisfied

\* loglike += max(-1e6, logpdf), on every element of an array
AddPrior(ll, logpdf) ==
    [i \in 1..Len(ll) |->
        ll[i] + (IF InvalidLoglike >= logpdf THEN InvalidLoglike ELSE logpdf)]

\* np.full(self.endog.shape[0], -1e6), and the scalar -1e6 of loglike
Invalid(n) == [i \in 1..n |-> InvalidLoglike]

MleState(fit_MAP, nobs, nparams) ==
    [pc |-> "idle", fit_MAP |-> fit_MAP, nobs |-> nobs, nparams |-> nparams,
     free_param |-> 0, T |-> 0, transition |-> 0, state_cov |-> 0,
     method |-> "none", params |-> <<>>, raised |-> "none",
     pert_success |-> FALSE, condition_satisfied |-> FALSE, success |-> FALSE,
     filtered |-> FALSE, j |-> 0, ret |-> <<>>, err |-> "none", evals |-> 0]

\* loglike(params) or loglikeobs(params) is called: handle_params, and the
\* locals of the call are fresh
MleCall(method, params) ==
    /\ mle.pc \in {"idle", "done"}
    /\ mle.evals < MaxEvals
    /\ Len(params) = mle.nparams
    /\ mle' = [mle EXCEPT !.pc = "update", !.method = method, !.params = params,
                          !.raised = "none", !.pert_success = FALSE,
                          !.condition_satisfied = FALSE, !.success = FALSE,
                          !.filtered = FALSE, !.j = 0, !.ret = <<>>,
                          !.err = "none", !.evals = mle.evals + 1]
    /\ UNCHANGED <<dicts, tabs, last, calls, csr, bk, sys, gcn>>

\* update: the parameters go into the model's free_param_dict, then the try
\* block.  The first parameter is the model's, the others are variances.
MleSolve(outcome) ==
    /\ mle.pc = "update"
    /\ IF outcome = "Exception"
       THEN mle' = [mle EXCEPT !.pc = "done", !.free_param = mle.params[1],
                               !.raised = outcome, !.err = outcome]
       ELSE mle' = [mle EXCEPT !.pc = "bk", !.free_param = mle.params[1],
                               !.raised = outcome,
                               !.T = IF outcome = "none" THEN mle.params[1] ELSE mle.T,
                               !.pert_success = (outcome = "none")]
    /\ UNCHANGED <<dicts, tabs, last, calls, csr, bk, sys, gcn>>

\* update: the Blanchard-Kahn condition, the matrices of the state space,
\* and what update returns.  answer is what check_bk_condition(verbose=False,
\* return_value='bool') returns
MleCondition(answer) ==
    /\ mle.pc = "bk"
    /\ mle' = [mle EXCEPT !.pc = "branch", !.condition_satisfied = answer,
                          !.transition = mle.T,
                          !.state_cov = IF mle.nparams > 1 THEN mle.params[mle.nparams]
                                        ELSE mle.state_cov,
                          !.success = UpdateResult(mle.pert_success, answer)]
    /\ UNCHANGED <<dicts, tabs, last, calls, csr, bk, sys, gcn>>

\* if success: the Kalman filter's likelihood
MleFilter(ll) ==
    /\ mle.pc = "branch"
    /\ mle.success
    /\ Len(ll) = RetLen(mle.method, mle.nobs)
    /\ mle' = [mle EXCEPT !.pc = IF mle.fit_MAP THEN "prior" ELSE "done",
                          !.filtered = TRUE, !.ret = ll]
    /\ UNCHANGED <<dicts, tabs, last, calls, csr, bk, sys, gcn>>

\* if self.fit_MAP: one turn of the loop over the parameters
MlePrior(logpdf) ==
    /\ mle.pc = "prior"
    /\ mle.j < mle.nparams
    /\ mle' = [mle EXCEPT !.j = mle.j + 1, !.ret = AddPrior(mle.ret, logpdf)]
    /\ UNCHANGED <<dicts, tabs, last, calls, csr, bk, sys, gcn>>

\* the loop is over: return loglike, return ll_obs
MleReturn ==
    /\ mle.pc = "prior"
    /\ mle.j = mle.nparams
    /\ mle' = [mle EXCEPT !.pc = "done"]
    /\ UNCHANGED <<dicts, tabs, last, calls, csr, bk, sys, gcn>>

\* else: a large negative number, for every observation
MleInvalid ==
    /\ mle.pc = "branch"
    /\ ~mle.success
    /\ mle' = [mle EXCEPT !.pc = "done",
                          !.ret = Invalid(RetLen(mle.method, mle.nobs))]
    /\ UNCHANGED <<dicts, tabs, last, calls, csr, bk, sys, gcn>>

InitMle ==
    /\ dicts = [o \in Objs |-> Obj(<<>>, FALSE, o)]
    /\ tabs = [t \in TabIds |-> EmptyTab]
    /\ last = NoCall
    /\ calls = 0
    /\ csr = <<>> /\ bk = <<>> /\ sys = <<>> /\ gcn = <<>>
    /\ \E fit_MAP \in BOOLEAN, nobs \in 1..MaxObs, nparams \in 1..MaxParams :
          mle = MleState(fit_MAP, nobs, nparams)

NextMle ==
    \/ \E method \in {"loglike", "loglikeobs"} : \E n \in 1..MaxParams : \E params \in [1..n -> ParamVals] :
          MleCall(method, params)
    \/ \E outcome \in SolveOutcomes : MleSolve(outcome)
    \/ \E answer \in BOOLEAN : MleCondition(answer)
    \/ \E n \in 1..MaxObs : \E ll \in [1..n -> LlVals] : MleFilter(ll)
    \/ \E logpdf \in LogPdfs : MlePrior(logpdf)
    \/ MleReturn
    \/ MleInvalid

SpecMle == InitMle /\ [][NextMle]_vars

\* C26: update reports success only if the steady state and the solution
\* raised no LinAlgError and the Blanchard-Kahn check answered true; and when
\* update reported failure, loglike returns -1e6 and loglikeobs returns -1e6
\* for every observation, the Kalman filter's likelihood was not evaluated
\* and no prior log-density was added.
C26_FailureIsInvalidLoglike ==
    /\ (mle.pc \in {"branch", "prior", "done"} /\ mle.err = "none" /\ mle.success)
          => (mle.raised = "none" /\ mle.condition_satisfied)
    /\ (mle.pc = "done" /\ mle.err = "none" /\ ~mle.success)
          => /\ mle.ret = Invalid(RetLen(mle.method, mle.nobs))
             /\ \A i \in 1..Len(mle.ret) : mle.ret[i] = InvalidLoglike
             /\ Len(mle.ret) = IF mle.method = "loglike" THEN 1 ELSE mle.nobs
             /\ ~mle.filtered
             /\ mle.j = 0

\* loglikeobs has returned -1e6 for each of two observations of a model with
\* priors, after a LinAlgError in the solution although the Blanchard-Kahn
\* check answered true
C26_Witness ==
    /\ mle.pc = "done" /\ mle.err = "none"
    /\ mle.method = "loglikeobs" /\ mle.nobs = 2 /\ mle.fit_MAP
    /\ mle.raised = "LinAlgError" /\ mle.condition_satisfied
    /\ ~mle.success
    /\ mle.ret = <<InvalidLoglike, InvalidLoglike>>

==============================================================================
